---- MODULE Spec2Model ----
(***************************************************************************)
(* go-find-vaccine, src/main.go: one run of main -> searchForAppointments. *)
(* A run reads the configuration, fetches every configured feed, filters   *)
(* the features, sorts the survivors by distance and logs the nearest.     *)
(*                                                                         *)
(* Strings are sequences of one-character strings, so that ToLower and     *)
(* TrimSpace act on characters.  A *vaccineLocationFeature is the pair     *)
(* <<response index, feature index>> of the feature it points to.          *)
(* Distances are great-circle miles rounded to whole miles.                *)
(***************************************************************************)
EXTENDS Integers, Sequences, FiniteSets, TLC

\* Most features a run's feeds hold together, in the enumerated feed contents.
MaxFeatures == 2
\* Longest provider string (configured filter, feature provider) enumerated.
MaxStrLen == 2

VARIABLES
    pc,             \* position of the run in main / searchForAppointments
    configuration,  \* *configuration read from the config file
    feeds,          \* what each configured URL answers in this run
    requests,       \* the GET requests made so far, in order
    apiResponses,   \* []*apiGETResponse
    r,              \* index of the outer filter loop (over apiResponses)
    i,              \* index of the inner filter loop, then of the log loop
    locationsWithAppointmentsPassingFilters,
    logged          \* the "available location" log lines written so far

vars == <<pc, configuration, feeds, requests, apiResponses, r, i,
          locationsWithAppointmentsPassingFilters, logged>>

----------------------------------------------------------------------------
\* strings.ToLower and strings.TrimSpace

ToLowerChar(c) == IF c = "A" THEN "a" ELSE IF c = "B" THEN "b" ELSE c

ToLower(s) == [k \in 1..Len(s) |-> ToLowerChar(s[k])]

RECURSIVE TrimLeft(_)
TrimLeft(s) == IF s # <<>> /\ Head(s) = " " THEN TrimLeft(Tail(s)) ELSE s

RECURSIVE TrimRight(_)
TrimRight(s) ==
    IF s # <<>> /\ s[Len(s)] = " " THEN TrimRight(SubSeq(s, 1, Len(s) - 1)) ELSE s

TrimSpace(s) == TrimRight(TrimLeft(s))

----------------------------------------------------------------------------
\* haversine.Distance (miles), on the latitudes and longitude differences the
\* enumerated coordinates take; the formula's values, rounded.

Abs(x) == IF x < 0 THEN -x ELSE x

HaversineTable(lat1, lat2, dlon) ==
    CASE lat1 = 0  /\ lat2 = 0  -> (CASE dlon = 0 -> 0    [] dlon = 30 -> 2072
                                      [] dlon = 60 -> 4145 [] dlon = 90 -> 6217)
      [] lat1 = 0  /\ lat2 = 30 -> (CASE dlon = 0 -> 2072 [] dlon = 30 -> 2861
                                      [] dlon = 60 -> 4445 [] dlon = 90 -> 6217)
      [] lat1 = 0  /\ lat2 = 60 -> (CASE dlon = 0 -> 4145 [] dlon = 30 -> 4445
                                      [] dlon = 60 -> 5217 [] dlon = 90 -> 6217)
      [] lat1 = 30 /\ lat2 = 30 -> (CASE dlon = 0 -> 0    [] dlon = 30 -> 1790
                                      [] dlon = 60 -> 3545 [] dlon = 90 -> 5217)
      [] lat1 = 30 /\ lat2 = 60 -> (CASE dlon = 0 -> 2072 [] dlon = 30 -> 2494
                                      [] dlon = 60 -> 3419 [] dlon = 90 -> 4445)
      [] lat1 = 60 /\ lat2 = 60 -> (CASE dlon = 0 -> 0    [] dlon = 30 -> 1027
                                      [] dlon = 60 -> 2000 [] dlon = 90 -> 2861)

Distance(p, q) ==
    IF p.Lat <= q.Lat
    THEN HaversineTable(p.Lat, q.Lat, Abs(p.Lon - q.Lon))
    ELSE HaversineTable(q.Lat, p.Lat, Abs(p.Lon - q.Lon))

----------------------------------------------------------------------------
\* The records of the program

Feature(provider, appointments, available, coordinates) ==
    [Provider |-> provider, Appointments |-> appointments,
     AppointmentsAvailable |-> available, Coordinates |-> coordinates]

Config(urls, uuid, lat, lon, n, provider, miles) ==
    [APIURLs |-> urls, AddUUIDParameter |-> uuid,
     SearchLatitude |-> lat, SearchLongitude |-> lon,
     NumNearestLocationsToLog |-> n,
     FilterProvider |-> provider, FilterDistanceMiles |-> miles]

\* What a URL answers: a transport error, or a status code with a body that
\* is either not JSON or a feature collection.
Answer(features) == [err |-> FALSE, status |-> 200, json |-> TRUE, features |-> features]

TransportError == [err |-> TRUE, status |-> 0, json |-> FALSE, features |-> <<>>]

BadStatus == [err |-> FALSE, status |-> 404, json |-> TRUE, features |-> <<>>]

BadJSON == [err |-> FALSE, status |-> 200, json |-> FALSE, features |-> <<>>]

----------------------------------------------------------------------------
\* The inputs of a run: a configuration file and what the feeds answer.

\* Where the enumerated configurations search from (degrees).
Home == [Lat |-> 60, Lon |-> 30]
Origin == [Lat |-> 0, Lon |-> 0]

\* The kinds of feature the enumerated feeds hold; coordinates are <<lon, lat>>.
\* From Home: Near is 0 miles away, West and East 1027 each, South 2494.
Near      == Feature(<<"a">>,      <<"t1">>,       FALSE, <<30, 60>>)
West      == Feature(<<"A", " ">>, <<>>,           TRUE,  <<0, 60>>)
East      == Feature(<<"b">>,      <<"t1", "t2">>, TRUE,  <<60, 60>>)
South     == Feature(<<"a">>,      <<"t1">>,       FALSE, <<60, 30>>)
NoAppt    == Feature(<<"a">>,      <<>>,           FALSE, <<30, 60>>)
BadCoords == Feature(<<"a">>,      <<"t1">>,       FALSE, <<30, 60, 0>>)
NoCoords  == Feature(<<"a">>,      <<"t1">>,       TRUE,  <<>>)

FeatureKinds == {Near, West, East, South, NoAppt, BadCoords, NoCoords}

SeqsUpTo(S, n) == UNION {[1..k -> S] : k \in 0..n}

Failures == {TransportError, BadStatus, BadJSON}

URLs == <<"u1", "u2">>

\* One or two feeds that answer, holding at most MaxFeatures features together.
AnsweringFeeds ==
    {<<Answer(a)>> : a \in SeqsUpTo(FeatureKinds, MaxFeatures)}
    \cup {<<Answer(a), Answer(b)>> :
            <<a, b>> \in {x \in SeqsUpTo(FeatureKinds, MaxFeatures)
                                \X SeqsUpTo(FeatureKinds, MaxFeatures) :
                            Len(x[1]) + Len(x[2]) <= MaxFeatures}}

PipelineRuns ==
    {[configuration |-> Config(SubSeq(URLs, 1, Len(f)), FALSE, Home.Lat, Home.Lon,
                               n, p, d),
      feeds |-> f] :
        f \in AnsweringFeeds, n \in 0..(MaxFeatures + 1),
        p \in {<<>>, <<"a">>}, d \in {-1, 0, 1027}}

\* Runs in which a feed fails, and the run with no feed configured.
FailingFeeds ==
    {<<>>}
    \cup {<<f>> : f \in Failures}
    \cup {<<f, Answer(<<Near>>)>> : f \in Failures}
    \cup {<<Answer(<<Near>>), f>> : f \in Failures}

FailingRuns ==
    {[configuration |-> Config(SubSeq(URLs, 1, Len(f)), u, Home.Lat, Home.Lon,
                               n, <<>>, 0),
      feeds |-> f] :
        f \in FailingFeeds, u \in BOOLEAN, n \in {-1, 1}}

\* Runs of one feed with one feature, over every filter and provider string.
Chars == {" ", "a", "A"}

ProviderRuns ==
    {[configuration |-> Config(<<"u1">>, FALSE, Home.Lat, Home.Lon, 1, p, 0),
      feeds |-> <<Answer(<<Feature(q, <<"t1">>, FALSE, <<30, 60>>)>>)>>] :
        p \in SeqsUpTo(Chars, MaxStrLen), q \in SeqsUpTo(Chars, MaxStrLen)}

\* Two feeds with three and two qualifying features, 4145, 0 and 2861 miles
\* from Origin in the first, 5217 and 2072 in the second.
TwoFeedRuns ==
    {[configuration |-> Config(URLs, TRUE, Origin.Lat, Origin.Lon, n, <<>>, d),
      feeds |-> <<Answer(<<Feature(<<"a">>, <<"t1">>, FALSE, <<60, 0>>),
                           Feature(<<"a">>, <<"t1">>, FALSE, <<0, 0>>),
                           Feature(<<"b">>, <<>>,     TRUE,  <<30, 30>>)>>),
                  Answer(<<Feature(<<"b">>, <<"t1">>, FALSE, <<60, 60>>),
                           Feature(<<"a">>, <<"t1">>, TRUE,  <<0, 30>>)>>)>>] :
        n \in {-1, 4, 5}, d \in {0, 4145}}

Runs == PipelineRuns \cup FailingRuns \cup ProviderRuns \cup TwoFeedRuns

----------------------------------------------------------------------------
\* makeHTTPGETCallWithResponse and makeAPIGETCall: the error, or the response

makeHTTPGETCallWithResponse(answer, expectedStatusCode) ==
    IF answer.err THEN [err |-> TRUE, body |-> answer]
    ELSE IF answer.status # expectedStatusCode THEN [err |-> TRUE, body |-> answer]
    ELSE [err |-> FALSE, body |-> answer]

\* The unmarshalling error left unchecked.
makeAPIGETCallIgnoringJSON(answer) ==
    LET got == makeHTTPGETCallWithResponse(answer, 200) IN
    IF got.err THEN [err |-> TRUE, Features |-> <<>>]
    ELSE [err |-> FALSE, Features |-> got.body.features]

makeAPIGETCall(answer) ==
    LET got == makeHTTPGETCallWithResponse(answer, 200) IN
    IF got.err THEN [err |-> TRUE, Features |-> <<>>]
    ELSE IF ~got.body.json THEN [err |-> TRUE, Features |-> <<>>]
    ELSE [err |-> FALSE, Features |-> got.body.features]

----------------------------------------------------------------------------
\* Before main has read the configuration file: no configuration yet.
NoConfiguration == Config(<<>>, FALSE, 0, 0, 0, <<>>, 0)

Init ==
    /\ pc = "main"
    /\ configuration = NoConfiguration
    /\ feeds = <<>>
    /\ requests = <<>>
    /\ apiResponses = <<>>
    /\ r = 0
    /\ i = 0
    /\ locationsWithAppointmentsPassingFilters = <<>>
    /\ logged = <<>>

\* main: the usage error, the configuration error, or the run begins.
Main ==
    /\ pc = "main"
    /\ \E argc \in {1, 2, 3} :
         \/ /\ argc # 2
            /\ pc' = "fatal"
            /\ UNCHANGED <<configuration, feeds>>
         \/ /\ argc = 2
            /\ \E readable \in BOOLEAN :
                 /\ ~readable
                 /\ pc' = "fatal"
                 /\ UNCHANGED <<configuration, feeds>>
         \/ /\ argc = 2
            /\ \E run \in Runs :
                 /\ configuration' = run.configuration
                 /\ feeds' = run.feeds
                 /\ pc' = "fetch"
    /\ UNCHANGED <<requests, apiResponses, r, i,
                   locationsWithAppointmentsPassingFilters, logged>>

\* The fetch loop with the error logged and the loop carried on.
FetchFeedCarryingOn ==
    /\ pc = "fetch"
    /\ Len(requests) < Len(configuration.APIURLs)
    /\ LET k == Len(requests) + 1
           apiResponse == makeAPIGETCall(feeds[k])
       IN  /\ requests' = Append(requests,
                                 [url |-> configuration.APIURLs[k],
                                  q |-> configuration.AddUUIDParameter])
           /\ pc' = "fetch"
           /\ IF apiResponse.err
              THEN UNCHANGED apiResponses
              ELSE apiResponses' = Append(apiResponses,
                                          [Features |-> apiResponse.Features])
    /\ UNCHANGED <<configuration, feeds, r, i,
                   locationsWithAppointmentsPassingFilters, logged>>

\* One iteration of the loop over configuration.APIURLs.
FetchFeed ==
    /\ pc = "fetch"
    /\ Len(requests) < Len(configuration.APIURLs)
    /\ LET k == Len(requests) + 1
           apiResponse == makeAPIGETCall(feeds[k])
       IN  /\ requests' = Append(requests,
                                 [url |-> configuration.APIURLs[k],
                                  q |-> configuration.AddUUIDParameter])
           /\ IF apiResponse.err
              THEN /\ pc' = "fatal"
                   /\ UNCHANGED apiResponses
              ELSE /\ pc' = "fetch"
                   /\ apiResponses' = Append(apiResponses,
                                             [Features |-> apiResponse.Features])
    /\ UNCHANGED <<configuration, feeds, r, i,
                   locationsWithAppointmentsPassingFilters, logged>>

----------------------------------------------------------------------------
\* The filter loop of searchForAppointments

searchLocation ==
    [Lat |-> configuration.SearchLatitude, Lon |-> configuration.SearchLongitude]

\* The configured filter trimmed as the feature's provider is.
filterProviderTrimmed == TrimSpace(ToLower(configuration.FilterProvider))

filterProvider == ToLower(configuration.FilterProvider)

\* The feature a *vaccineLocationFeature points to.
FeatureAt(ref) == apiResponses[ref[1]].Features[ref[2]]

featureProvider(currentFeature) == TrimSpace(ToLower(currentFeature.Provider))

ProviderMismatch(currentFeature) ==
    Len(filterProvider) > 0 /\ filterProvider # featureProvider(currentFeature)

\* The availability flag's negation dropped.
NoAppointmentsFlagNotNegated(currentFeature) ==
    Len(currentFeature.Appointments) = 0 /\ currentFeature.AppointmentsAvailable

NoAppointments(currentFeature) ==
    Len(currentFeature.Appointments) = 0 /\ ~currentFeature.AppointmentsAvailable

\* Only too few coordinates refused.
UnknownCoordinatesTooFewOnly(currentFeature) == Len(currentFeature.Coordinates) < 2

UnknownCoordinates(currentFeature) == Len(currentFeature.Coordinates) # 2

featureLocation(currentFeature) ==
    [Lat |-> currentFeature.Coordinates[2], Lon |-> currentFeature.Coordinates[1]]

\* The maximum itself refused.
TooFarAtMaximum(currentFeatureDistanceMiles) ==
    configuration.FilterDistanceMiles > 0
        /\ currentFeatureDistanceMiles >= configuration.FilterDistanceMiles

TooFar(currentFeatureDistanceMiles) ==
    configuration.FilterDistanceMiles > 0
        /\ currentFeatureDistanceMiles > configuration.FilterDistanceMiles

\* The body of the inner loop for the feature at ref: the slice afterwards.
ProcessFeature(locations, ref) ==
    LET currentFeature == FeatureAt(ref) IN
    IF ProviderMismatch(currentFeature) THEN locations
    ELSE IF NoAppointments(currentFeature) THEN locations
    ELSE IF UnknownCoordinates(currentFeature) THEN locations
    ELSE LET currentFeatureDistanceMiles ==
                 Distance(searchLocation, featureLocation(currentFeature))
         IN  IF TooFar(currentFeatureDistanceMiles) THEN locations
             ELSE Append(locations,
                         [vaccineLocationFeature |-> ref,
                          distanceMiles |-> currentFeatureDistanceMiles])

\* The loops' next position from <<rr, ii>> on: the first response at or after
\* rr that has a feature at ii (ii = 1 in a later response), or past the end.
\* The loops left at the end of the first response that runs out.
PositionLeavingLoop(responses, rr, ii) ==
    IF rr > Len(responses) THEN <<rr, 1>>
    ELSE IF ii <= Len(responses[rr].Features) THEN <<rr, ii>>
    ELSE <<Len(responses) + 1, 1>>

RECURSIVE Position(_, _, _)
Position(responses, rr, ii) ==
    IF rr > Len(responses) THEN <<rr, 1>>
    ELSE IF ii <= Len(responses[rr].Features) THEN <<rr, ii>>
    ELSE Position(responses, rr + 1, 1)

\* Every feed is fetched: lines 167-172, up to the first feature.
BeginFilter ==
    /\ pc = "fetch"
    /\ Len(requests) = Len(configuration.APIURLs)
    /\ pc' = "filter"
    /\ locationsWithAppointmentsPassingFilters' = <<>>
    /\ r' = Position(apiResponses, 1, 1)[1]
    /\ i' = Position(apiResponses, 1, 1)[2]
    /\ UNCHANGED <<configuration, feeds, requests, apiResponses, logged>>

\* One iteration of the inner loop, up to the next feature.
FilterFeature ==
    /\ pc = "filter"
    /\ r <= Len(apiResponses)
    /\ locationsWithAppointmentsPassingFilters' =
           ProcessFeature(locationsWithAppointmentsPassingFilters, <<r, i>>)
    /\ r' = Position(apiResponses, r, i + 1)[1]
    /\ i' = Position(apiResponses, r, i + 1)[2]
    /\ UNCHANGED <<pc, configuration, feeds, requests, apiResponses, logged>>

----------------------------------------------------------------------------
\* sort.Slice with less(a, b) = a.distanceMiles < b.distanceMiles.  sort.Slice
\* is not a stable sort: it leaves some permutation of the slice in which no
\* element is less than an element before it.

\* The comparison turned round.
lessDescending(a, b) == a.distanceMiles > b.distanceMiles

less(a, b) == a.distanceMiles < b.distanceMiles

Permutation(s, p) == [k \in 1..Len(s) |-> s[p[k]]]

IsSorted(s) == \A a, b \in 1..Len(s) : a < b => ~less(s[b], s[a])

\* The slice left as it is.
SortSliceNotSorting(s) == {s}

SortSlice(s) ==
    {t \in {Permutation(s, p) : p \in Permutations(1..Len(s))} : IsSorted(t)}

Sort ==
    /\ pc = "filter"
    /\ r > Len(apiResponses)
    /\ locationsWithAppointmentsPassingFilters' \in
           SortSlice(locationsWithAppointmentsPassingFilters)
    /\ pc' = "log"
    /\ i' = 0
    /\ UNCHANGED <<configuration, feeds, requests, apiResponses, r, logged>>

\* The log loop's condition, and one iteration of it.
\* The count compared with <=.
MoreToLogOneMore(n, locations, idx) == idx <= n /\ idx < Len(locations)

MoreToLog(n, locations, idx) == idx < n /\ idx < Len(locations)

LogLocation ==
    /\ pc = "log"
    /\ MoreToLog(configuration.NumNearestLocationsToLog,
                 locationsWithAppointmentsPassingFilters, i)
    /\ logged' = Append(logged, locationsWithAppointmentsPassingFilters[i + 1])
    /\ i' = i + 1
    /\ UNCHANGED <<pc, configuration, feeds, requests, apiResponses, r,
                   locationsWithAppointmentsPassingFilters>>

\* The loop ends: "end searchForAppointments", and main returns.
EndSearch ==
    /\ pc = "log"
    /\ ~MoreToLog(configuration.NumNearestLocationsToLog,
                  locationsWithAppointmentsPassingFilters, i)
    /\ pc' = "done"
    /\ UNCHANGED <<configuration, feeds, requests, apiResponses, r, i,
                   locationsWithAppointmentsPassingFilters, logged>>

Next ==
    \/ Main
    \/ FetchFeed
    \/ BeginFilter
    \/ FilterFeature
    \/ Sort
    \/ LogLocation
    \/ EndSearch

Spec == Init /\ [][Next]_vars

----------------------------------------------------------------------------
\* The vocabulary of the properties, stated from the feeds' features and the
\* configuration rather than from the loop.

Locations == locationsWithAppointmentsPassingFilters

Terminated == pc \in {"done", "fatal"}

\* Every fetched feature, as <<response, feature>>, and their original order.
Refs ==
    UNION {{<<a, b>> : b \in 1..Len(apiResponses[a].Features)} :
             a \in 1..Len(apiResponses)}

Before(x, y) == x[1] < y[1] \/ (x[1] = y[1] /\ x[2] < y[2])

\* The filter loop has dealt with the feature at ref.
Processed(ref) ==
    \/ pc \in {"log", "done"}
    \/ pc = "filter" /\ Before(ref, <<r, i>>)

FilterDone == pc \in {"log", "done"} \/ (pc = "filter" /\ r > Len(apiResponses))

HasAppointments(f) == Len(f.Appointments) >= 1 \/ f.AppointmentsAvailable

PassesProvider(f) ==
    \/ configuration.FilterProvider = <<>>
    \/ ToLower(configuration.FilterProvider) = TrimSpace(ToLower(f.Provider))

MilesFrom(f) ==
    Distance([Lat |-> configuration.SearchLatitude,
              Lon |-> configuration.SearchLongitude],
             [Lat |-> f.Coordinates[2], Lon |-> f.Coordinates[1]])

WithinMaximum(f) ==
    configuration.FilterDistanceMiles <= 0
        \/ MilesFrom(f) <= configuration.FilterDistanceMiles

Qualifies(f) ==
    /\ HasAppointments(f)
    /\ PassesProvider(f)
    /\ Len(f.Coordinates) = 2
    /\ WithinMaximum(f)

Qualifying == {ref \in Refs : Qualifies(FeatureAt(ref))}

\* Where the feature at ref stands in a slice of locations.
Entries(s, ref) == {k \in 1..Len(s) : s[k].vaccineLocationFeature = ref}

Min(a, b) == IF a < b THEN a ELSE b

FeedFails(answer) == answer.err \/ answer.status # 200 \/ ~answer.json

----------------------------------------------------------------------------
\* C1: every location logged has an appointment record or its
\* appointments-available flag set, matches the provider filter when one is
\* configured, and lies within the maximum distance when one is configured.
C1_LoggedPassAllFilters ==
    \A k \in 1..Len(logged) :
        LET f == FeatureAt(logged[k].vaccineLocationFeature) IN
        /\ Len(f.Appointments) >= 1 \/ f.AppointmentsAvailable
        /\ configuration.FilterProvider # <<>> =>
               /\ PassesProvider(f)
               /\ TrimSpace(ToLower(configuration.FilterProvider))
                      = TrimSpace(ToLower(f.Provider))
        /\ configuration.FilterDistanceMiles > 0 =>
               /\ logged[k].distanceMiles <= configuration.FilterDistanceMiles
               /\ logged[k].distanceMiles = MilesFrom(f)

\* A finished run that logged a location under both filters and dropped another.
C1_Witness ==
    /\ pc = "done"
    /\ Len(logged) >= 1
    /\ configuration.FilterProvider # <<>>
    /\ configuration.FilterDistanceMiles > 0
    /\ \E ref \in Refs : ~Qualifies(FeatureAt(ref))

\* C2: once a feed's fetch has failed the run is in its fatal state and stays
\* there: the failing request is the last one made, the feeds before it are
\* the only ones answered, and nothing is filtered, sorted or logged.
C2_FetchFailureIsFatal ==
    \A k \in 1..Len(requests) :
        FeedFails(feeds[k]) =>
            /\ pc = "fatal"
            /\ k = Len(requests)
            /\ Len(apiResponses) = k - 1
            /\ r = 0
            /\ Locations = <<>>
            /\ logged = <<>>
            /\ ~ENABLED Next

\* The second feed returned a body that is not JSON after the first answered.
C2_Witness ==
    /\ pc = "fatal"
    /\ Len(apiResponses) = 1
    /\ Len(requests) = 2
    /\ feeds[2] = BadJSON

C4_BothSidesTrimmed ==
    \A ref \in Refs :
        LET f == FeatureAt(ref) IN
        (/\ Processed(ref)
         /\ configuration.FilterProvider # <<>>
         /\ HasAppointments(f) /\ Len(f.Coordinates) = 2 /\ WithinMaximum(f)) =>
            (Entries(Locations, ref) # {}
                <=> TrimSpace(ToLower(configuration.FilterProvider))
                        = TrimSpace(ToLower(f.Provider)))

\* C4 as amended: under a non-empty filter a feature passes exactly when the
\* filter lower-cased (and not trimmed) equals the provider lower-cased and
\* trimmed; under an empty filter every feature passes.
C4_OnlyProviderTrimmed ==
    \A ref \in Refs :
        LET f == FeatureAt(ref) IN
        (/\ Processed(ref)
         /\ HasAppointments(f) /\ Len(f.Coordinates) = 2 /\ WithinMaximum(f)) =>
            (Entries(Locations, ref) # {}
                <=> \/ configuration.FilterProvider = <<>>
                    \/ ToLower(configuration.FilterProvider)
                           = TrimSpace(ToLower(f.Provider)))

\* The filter "a" kept a feature whose provider is " A".
C4_Witness ==
    /\ pc = "done"
    /\ configuration.FilterProvider = <<"a">>
    /\ Len(logged) = 1
    /\ FeatureAt(logged[1].vaccineLocationFeature).Provider = <<" ", "A">>

\* C5: the logged locations are in ascending order of distance, and no
\* survivor that is not logged is strictly nearer than a logged one.
C5_LoggedNearestAscending ==
    /\ \A k \in 1..(Len(logged) - 1) :
           logged[k].distanceMiles <= logged[k + 1].distanceMiles
    /\ \A k \in 1..Len(logged) : \E n \in 1..Len(Locations) : Locations[n] = logged[k]
    /\ \A n \in 1..Len(Locations) :
           (\A k \in 1..Len(logged) : logged[k] # Locations[n]) =>
               \A k \in 1..Len(logged) :
                   ~(Locations[n].distanceMiles < logged[k].distanceMiles)

\* Four of five survivors logged, the survivors not fetched in order of distance.
C5_Witness ==
    /\ pc = "done"
    /\ Len(logged) = 4
    /\ Len(Locations) = 5
    /\ logged[1].distanceMiles < logged[4].distanceMiles
    /\ logged[1].vaccineLocationFeature # <<1, 1>>

\* C6: a finished run with a count N >= 0 and S survivors has logged exactly
\* min(N, S) locations, and a run is fatal only before the filter loop, so
\* that a run with no survivor finishes.
C6_LoggedCount ==
    /\ (pc = "done" /\ configuration.NumNearestLocationsToLog >= 0) =>
           Len(logged) = Min(configuration.NumNearestLocationsToLog, Len(Locations))
    /\ (pc = "log" /\ Len(Locations) = 0) => ENABLED EndSearch
    /\ pc = "fatal" =>
           /\ r = 0
           /\ Len(requests) > 0 => FeedFails(feeds[Len(requests)])

\* A run over fetched features finished with no survivor and nothing logged.
C6_Witness ==
    /\ pc = "done"
    /\ Refs # {}
    /\ Len(Locations) = 0
    /\ configuration.NumNearestLocationsToLog >= 1
    /\ logged = <<>>

\* C7: filtering starts only once every configured feed is fetched, and a
\* finished run has logged the N nearest qualifying features of all the feeds
\* together: min(N, number qualifying) of them, each once, none farther than
\* a qualifying feature left out.
C7_RankedOverAllFeeds ==
    /\ pc = "fetch" => (r = 0 /\ Locations = <<>> /\ logged = <<>>)
    /\ pc \in {"filter", "log", "done"} =>
           /\ Len(apiResponses) = Len(configuration.APIURLs)
           /\ \A k \in 1..Len(feeds) : apiResponses[k].Features = feeds[k].features
    /\ pc = "done" =>
           /\ Len(logged) =
                  Min(IF configuration.NumNearestLocationsToLog < 0 THEN 0
                      ELSE configuration.NumNearestLocationsToLog,
                      Cardinality(Qualifying))
           /\ \A ref \in Refs :
                  Cardinality(Entries(logged, ref)) =
                      IF ref \in Qualifying /\ Entries(logged, ref) # {} THEN 1 ELSE 0
           /\ \A ref \in Qualifying :
                  Entries(logged, ref) = {} =>
                      \A k \in 1..Len(logged) :
                          logged[k].distanceMiles <= MilesFrom(FeatureAt(ref))

\* Three qualifying features in feed 1, two in feed 2, N = 4: four logged,
\* the second nearest from feed 2, the farthest (in feed 2) left out.
C7_Witness ==
    /\ pc = "done"
    /\ configuration.NumNearestLocationsToLog = 4
    /\ Len(apiResponses) = 2
    /\ Cardinality({ref \in Qualifying : ref[1] = 1}) = 3
    /\ Cardinality({ref \in Qualifying : ref[1] = 2}) = 2
    /\ Len(logged) = 4
    /\ logged[2].vaccineLocationFeature = <<2, 2>>
    /\ Entries(logged, <<2, 1>>) = {}

\* C8: a feature the filter loop has dealt with, which has an appointment or
\* the flag, passes the provider filter, has two coordinates and is no
\* farther than a maximum > 0, stands exactly once among the survivors, with
\* its distance.
C8_NoQualifyingFeatureLost ==
    \A ref \in Refs :
        (Processed(ref) /\ Qualifies(FeatureAt(ref))) =>
            /\ Cardinality(Entries(Locations, ref)) = 1
            /\ \A k \in Entries(Locations, ref) :
                   Locations[k].distanceMiles = MilesFrom(FeatureAt(ref))

\* A feature exactly at the maximum distance is among the survivors.
C8_Witness ==
    /\ FilterDone
    /\ configuration.FilterDistanceMiles > 0
    /\ \E k \in 1..Len(Locations) :
           Locations[k].distanceMiles = configuration.FilterDistanceMiles

\* C9: a feature without exactly two coordinates is never among the
\* survivors and never ends the run: the run is fatal only before the filter
\* loop, the loop always has a next step, and the qualifying features after
\* such a feature are among the survivors once the loop is over.  A survivor's
\* distance is that of the point with longitude Coordinates[0] and latitude
\* Coordinates[1].
C9_BadCoordinatesSkipped ==
    /\ \A ref \in Refs :
           Len(FeatureAt(ref).Coordinates) # 2 =>
               /\ Entries(Locations, ref) = {}
               /\ FilterDone =>
                      \A later \in Qualifying :
                          Before(ref, later) => Entries(Locations, later) # {}
    /\ pc = "fatal" => r = 0
    /\ pc = "filter" => ENABLED (FilterFeature \/ Sort)
    /\ \A k \in 1..Len(Locations) :
           LET c == FeatureAt(Locations[k].vaccineLocationFeature).Coordinates IN
           /\ Len(c) = 2
           /\ Locations[k].distanceMiles =
                  Distance(searchLocation, [Lon |-> c[1], Lat |-> c[2]])

\* A feature with three coordinates came first, and a feature of a later feed
\* was logged.
C9_Witness ==
    /\ pc = "done"
    /\ Len(apiResponses) = 2
    /\ <<1, 1>> \in Refs
    /\ Len(FeatureAt(<<1, 1>>).Coordinates) = 3
    /\ HasAppointments(FeatureAt(<<1, 1>>))
    /\ PassesProvider(FeatureAt(<<1, 1>>))
    /\ Len(logged) = 1
    /\ logged[1].vaccineLocationFeature = <<2, 1>>

\* C10: the run only moves forward through main, fetch, filter, log and its
\* end; the k-th request is for the k-th configured URL, made during the fetch
\* phase once the k - 1 requests before it are answered; no request is made
\* once filtering has begun; and the run ends, finished or fatal: each step
\* either enters a later phase or shortens what is left of the phase's loop,
\* and a run that has not ended has a next step.
Rank(p) ==
    CASE p = "main" -> 0 [] p = "fetch" -> 1 [] p = "filter" -> 2
      [] p = "log" -> 3 [] p = "done" -> 4 [] p = "fatal" -> 4

\* The iterations the loop of the current phase can still make.
Remaining ==
    CASE pc = "fetch" -> Len(configuration.APIURLs) - Len(requests)
      [] pc = "filter" -> Cardinality({ref \in Refs : ~Processed(ref)})
      [] pc = "log" -> Len(Locations) - i
      [] OTHER -> 0

C10_Step ==
    /\ ~Terminated
    /\ \/ Rank(pc') > Rank(pc)
       \/ pc' = pc /\ Remaining' < Remaining
    /\ pc' = "fatal" => pc \in {"main", "fetch"}
    /\ \/ requests' = requests
       \/ /\ pc = "fetch"
          /\ Len(apiResponses) = Len(requests)
          /\ Len(requests) < Len(configuration.APIURLs)
          /\ requests' = Append(requests,
                                [url |-> configuration.APIURLs[Len(requests) + 1],
                                 q |-> configuration.AddUUIDParameter])

C10_LinearPass ==
    /\ [][C10_Step]_vars
    /\ [](Remaining >= 0 /\ (Terminated \/ ENABLED Next))

\* A run of two requests finished having logged a location.
C10_Witness ==
    /\ pc = "done"
    /\ Len(requests) = 2
    /\ requests[1].url = "u1" /\ requests[2].url = "u2"
    /\ Len(logged) >= 1

====
